---- MODULE Spec2Model ----
(***************************************************************************)
(* slumber: resource-address resolution and request/response translation.  *)
(* A text string is a sequence of tokens; a token is one character or one  *)
(* run of letters that no function of the program splits ("http", "get").  *)
(***************************************************************************)
EXTENDS Integers, Sequences, FiniteSets, TLC

VARIABLES heap, born, lineage, last, sent

vars == <<heap, born, lineage, last, sent>>

(***************************************************************************)
(* Bounds of the model.                                                    *)
(***************************************************************************)
\* nodes allocated in one behaviour
MaxNodes == 3

(***************************************************************************)
(* Strings.                                                                *)
(***************************************************************************)
RECURSIVE Find(_, _, _)
\* str.find: the first index >= i of a token of set cs in s, 0 when there is none
Find(s, cs, i) ==
    IF i > Len(s) THEN 0
    ELSE IF s[i] \in cs THEN i
    ELSE Find(s, cs, i + 1)

\* s[a-1:b] of Python, with 1-based inclusive indices: out-of-range ends are cut
Slice(s, a, b) ==
    IF a > b \/ a > Len(s) THEN <<>>
    ELSE SubSeq(s, a, IF b > Len(s) THEN Len(s) ELSE b)

StartsWith(s, p) == Len(s) >= Len(p) /\ Slice(s, 1, Len(p)) = p

EndsWith(s, p) == Len(s) >= Len(p) /\ Slice(s, Len(s) - Len(p) + 1, Len(s)) = p

DigitToks == <<"0", "1", "2", "3", "4", "5", "6", "7", "8", "9">>

DigitSet == {DigitToks[i] : i \in 1..Len(DigitToks)}

RECURSIVE Digits(_)
\* the decimal text of a natural number
Digits(n) ==
    IF n < 10 THEN <<DigitToks[n + 1]>>
    ELSE Digits(n \div 10) \o <<DigitToks[(n % 10) + 1]>>

\* a Python value: an int or a str
IntVal(n) == [t |-> "int", v |-> n]

StrVal(s) == [t |-> "str", v |-> s]

\* str(x)
str(x) == IF x.t = "int" THEN Digits(x.v) ELSE x.v

(***************************************************************************)
(* urlparse.urlsplit, posixpath.join, urlparse.urlunsplit as url_join      *)
(* calls them.                                                             *)
(***************************************************************************)
\* tokens that are not scheme characters (letters, digits, "+", "-", ".")
NonSchemeToks == {":", "/", "?", "#", "=", "&", "_"}

uses_netloc == {<<"http">>, <<"https">>, <<>>}

\* s.split(c, 1) when c is in s: the text before the first c and the text
\* after it; s and nothing when c is not in s
SplitAt(s, cs) ==
    LET i == Find(s, cs, 1)
    IN  IF i = 0 THEN [head |-> s, tail |-> <<>>]
        ELSE [head |-> Slice(s, 1, i - 1), tail |-> Slice(s, i + 1, Len(s))]

\* _splitnetloc(url, 2): the netloc ends at the first of "/", "?", "#"
SplitNetloc(url) ==
    LET d == Find(url, {"/", "?", "#"}, 3)
    IN  IF d = 0 THEN [netloc |-> Slice(url, 3, Len(url)), rest |-> <<>>]
        ELSE [netloc |-> Slice(url, 3, d - 1), rest |-> Slice(url, d, Len(url))]

\* urlsplit: the query is split off what is left of the fragment split f
SplitQuery(scheme, netloc, f) ==
    LET p == SplitAt(f.head, {"?"})
    IN  [scheme |-> scheme, netloc |-> netloc, path |-> p.head,
         query |-> p.tail, fragment |-> f.tail]

\* urlsplit after the scheme is taken off: netloc, then fragment, then query
SplitRest(scheme, url) ==
    IF StartsWith(url, <<"/", "/">>)
    THEN SplitQuery(scheme, SplitNetloc(url).netloc,
                    SplitAt(SplitNetloc(url).rest, {"#"}))
    ELSE SplitQuery(scheme, <<>>, SplitAt(url, {"#"}))

\* urlsplit: whether the text before the first ":" (at index i) is a scheme
HasScheme(url, i) ==
    /\ i > 1
    /\ \/ Slice(url, 1, i - 1) = <<"http">>
       \/ /\ \A k \in 1..(i - 1) : url[k] \notin NonSchemeToks
          /\ \/ i = Len(url)
             \/ \E k \in (i + 1)..Len(url) : url[k] \notin DigitSet

SplitScheme(url, i) ==
    IF HasScheme(url, i)
    THEN SplitRest(Slice(url, 1, i - 1), Slice(url, i + 1, Len(url)))
    ELSE SplitRest(<<>>, url)

urlsplit(url) == SplitScheme(url, Find(url, {":"}, 1))

\* one step of posixpath.join's loop
JoinStep(path, b) ==
    IF StartsWith(b, <<"/">>) THEN b
    ELSE IF path = <<>> \/ EndsWith(path, <<"/">>) THEN path \o b
    ELSE path \o <<"/">> \o b

RECURSIVE posixpath_join(_, _)
posixpath_join(a, p) ==
    IF p = <<>> THEN a
    ELSE posixpath_join(JoinStep(a, Head(p)), Tail(p))

\* urlunsplit: the query and the fragment are put back
UnsplitTail(url, query, fragment) ==
    (IF query # <<>> THEN url \o <<"?">> \o query ELSE url)
        \o (IF fragment # <<>> THEN <<"#">> \o fragment ELSE <<>>)

\* urlunsplit: the netloc and the scheme are put back
UnsplitHead(scheme, netloc, path) ==
    (IF scheme # <<>> THEN scheme \o <<":">> ELSE <<>>)
        \o (IF netloc # <<>>
               \/ (scheme # <<>> /\ scheme \in uses_netloc
                   /\ Slice(path, 1, 2) # <<"/", "/">>)
            THEN <<"/", "/">> \o netloc
                 \o (IF path # <<>> /\ Head(path) # "/" THEN <<"/">> ELSE <<>>)
            ELSE <<>>)
        \o path

urlunsplit(d) ==
    UnsplitTail(UnsplitHead(d.scheme, d.netloc, d.path), d.query, d.fragment)

\* url_join with the base already split
JoinSplit(s, args) ==
    urlunsplit([s EXCEPT !.path =
        posixpath_join(s.path, [k \in 1..Len(args) |-> str(args[k])])])

\* a join of the segments onto the whole base, not onto its path
JoinUnsplit(base, args) ==
    posixpath_join(base, [k \in 1..Len(args) |-> str(args[k])])

\* url_join(base, *args); args is a sequence of Python values
url_join(base, args) == JoinSplit(urlsplit(base), args)

(***************************************************************************)
(* Python values and call outcomes.                                        *)
(***************************************************************************)
NoneV == [t |-> "None"]

BoolVal(b) == [t |-> "bool", v |-> b]

NodeRef(n) == [t |-> "node", v |-> n]

Return(v) == [k |-> "return", v |-> v]

Raise(exc) == [k |-> "raise", exc |-> exc]

\* dict.update: the keys of g win
Merge(f, g) ==
    [k \in DOMAIN f \cup DOMAIN g |-> IF k \in DOMAIN g THEN g[k] ELSE f[k]]

(***************************************************************************)
(* Collaborators: the codec of slumber.serialize, by its contract.         *)
(***************************************************************************)
RECURSIVE ParseInt(_)
ParseInt(s) ==
    IF Len(s) = 1 THEN Find(DigitToks, {s[1]}, 1) - 1
    ELSE 10 * ParseInt(Slice(s, 1, Len(s) - 1))
         + Find(DigitToks, {s[Len(s)]}, 1) - 1

IsNumber(s) == s # <<>> /\ \A i \in 1..Len(s) : s[i] \in DigitSet

\* Serializer.dumps of an int in the node's format
dumps(format, data) ==
    IF format = "yaml" THEN Digits(data.v) \o <<"\n">> ELSE Digits(data.v)

\* Serializer.loads: the decoded value, or the codec's error
loads(format, content) ==
    LET text == IF format = "yaml" /\ EndsWith(content, <<"\n">>)
                THEN Slice(content, 1, Len(content) - 1) ELSE content
    IN  IF IsNumber(text) THEN Return(IntVal(ParseInt(text)))
        ELSE Raise("SerializationError")

get_content_type(format) ==
    IF format = "yaml" THEN "text/yaml" ELSE "application/json"

(***************************************************************************)
(* MetaMixin, ResourceAttributesMixin, Resource, API.                      *)
(* The heap is the sequence of nodes allocated so far; a node's identity   *)
(* is its index.                                                           *)
(***************************************************************************)
\* class Meta of Resource and of API: the declared defaults
MetaDefaults ==
    [authentication |-> NoneV, base_url |-> NoneV, format |-> "json"]

\* MetaMixin.__init__: the defaults, each overridden by the keyword given
MetaMixin_init(kwargs) ==
    [key \in DOMAIN MetaDefaults |->
        IF key \in DOMAIN kwargs THEN kwargs[key] ELSE MetaDefaults[key]]

Resource_init(kwargs) == [cls |-> "Resource", meta |-> MetaMixin_init(kwargs)]

API_init(base_url, kwargs) ==
    [cls |-> "API",
     meta |-> MetaMixin_init(Merge(kwargs, [base_url |-> base_url]))]

\* a constructor's effect: the new node is put on the heap and returned
Alloc(h, node) ==
    [heap |-> Append(h, node), out |-> Return(NodeRef(Len(h) + 1))]

\* __getattr__ without the authentication keyword: the child gets the default
GetAttrDropsAuth(h, self, item) ==
    IF StartsWith(item, <<"_">>)
    THEN [heap |-> h, out |-> Raise("AttributeError")]
    ELSE Alloc(h, Resource_init(
            [base_url |-> url_join(h[self].meta.base_url, <<StrVal(item)>>),
             format |-> h[self].meta.format]))

\* ResourceAttributesMixin.__getattr__ on node self of heap h
getattr(h, self, item) ==
    IF StartsWith(item, <<"_">>)
    THEN [heap |-> h, out |-> Raise("AttributeError")]
    ELSE Alloc(h, Resource_init(
            [base_url |-> url_join(h[self].meta.base_url, <<StrVal(item)>>),
             format |-> h[self].meta.format,
             authentication |-> h[self].meta.authentication]))

\* Resource.__copy__
Resource_copy(h, self) == Alloc(h, Resource_init(h[self].meta))

\* the parameters with the spelling post uses added
CallParamsFollow == {"id", "format", "url_overide", "url_override"}

\* the parameters Resource.__call__ declares
CallParams == {"id", "format", "url_overide"}

\* __call__: if id is not None
WithId(kwargs, kw, base_url) ==
    IF "id" \in DOMAIN kw
    THEN [kwargs EXCEPT !.base_url = url_join(base_url, <<kw.id>>)]
    ELSE kwargs

\* __call__: if format is not None
WithFormat(kwargs, kw) ==
    IF "format" \in DOMAIN kw THEN [kwargs EXCEPT !.format = kw.format]
    ELSE kwargs

\* __call__: if url_overide is not None
WithOverride(kwargs, kw) ==
    IF "url_overide" \in DOMAIN kw
    THEN [kwargs EXCEPT !.base_url = kw.url_overide]
    ELSE kwargs

\* __call__ with the id applied last, over the override
CallIdWins(h, self, kw) ==
    IF ~(DOMAIN kw \subseteq CallParams)
    THEN [heap |-> h, out |-> Raise("TypeError")]
    ELSE IF DOMAIN kw = {}
    THEN [heap |-> h, out |-> Return(NodeRef(self))]
    ELSE Alloc(h, Resource_init(
            WithId(WithFormat(WithOverride(h[self].meta, kw), kw),
                   kw, h[self].meta.base_url)))

\* Resource.__call__ with the keyword arguments kw (a positional argument is
\* bound to its parameter's name; an omitted one is absent from kw)
Resource_call(h, self, kw) ==
    IF ~(DOMAIN kw \subseteq CallParams)
    THEN [heap |-> h, out |-> Raise("TypeError")]
    ELSE IF DOMAIN kw = {}
    THEN [heap |-> h, out |-> Return(NodeRef(self))]
    ELSE Alloc(h, Resource_init(
            WithOverride(
                WithFormat(WithId(h[self].meta, kw, h[self].meta.base_url), kw),
                kw)))

(***************************************************************************)
(* Request execution.  A verb is one linear transaction; resp and content  *)
(* are what the transport answers.                                         *)
(***************************************************************************)
\* urllib.quote_plus over the token alphabet: a space becomes "+"
quote_plus(s) == [i \in 1..Len(s) |-> IF s[i] = " " THEN "+" ELSE s[i]]

\* urllib.urlencode of one keyword argument
EncodePair(key, value) == <<key, "=">> \o quote_plus(str(value))

RECURSIVE EncodeKeys(_, _)
EncodeKeys(kwargs, keys) ==
    IF Cardinality(keys) = 1
    THEN EncodePair(CHOOSE key \in keys : TRUE, kwargs[CHOOSE key \in keys : TRUE])
    ELSE EncodePair(CHOOSE key \in keys : TRUE, kwargs[CHOOSE key \in keys : TRUE])
         \o <<"&">>
         \o EncodeKeys(kwargs, keys \ {CHOOSE key \in keys : TRUE})

\* urllib.urlencode of the query keyword arguments
urlencode(kwargs) == EncodeKeys(kwargs, DOMAIN kwargs)

\* the client range with its lower end left out
IsClientErrorAbove(status) == 400 < status /\ status <= 499

\* the client range with its first comparison turned round
IsClientErrorSwapped(status) == 400 >= status /\ status <= 499

\* _request: 400 <= resp.status <= 499
IsClientError(status) == 400 <= status /\ status <= 499

\* _request: 500 <= resp.status <= 599
IsServerError(status) == 500 <= status /\ status <= 599

\* the success range with its upper end left out
Is2xxBelow(status) == 200 <= status /\ status < 299

\* the verbs: 200 <= resp.status <= 299
Is2xx(status) == 200 <= status /\ status <= 299

\* the URL _request sends to
RequestUrl(base_url, kwargs) ==
    IF DOMAIN kwargs # {} THEN base_url \o <<"?">> \o urlencode(kwargs)
    ELSE base_url

\* the exception _request raises for a 4xx or 5xx answer
HttpException(exc, url, resp, content) ==
    [k |-> "raise", exc |-> exc, status |-> resp.status, url |-> url,
     response |-> resp, content |-> content]

\* _request from the call of the transport on
Exchange(h, url, method, body, format, resp, content) ==
    [heap |-> h,
     sent |-> <<[url |-> url, method |-> method, body |-> body,
                 headers |-> [content_type |-> get_content_type(format)]]>>,
     out |-> IF IsClientError(resp.status)
             THEN HttpException("HttpClientError", url, resp, content)
             ELSE IF IsServerError(resp.status)
             THEN HttpException("HttpServerError", url, resp, content)
             ELSE [k |-> "return", resp |-> resp, content |-> content]]

\* _request keeping the URL it built in the node's base_url
RequestStoresUrl(h, self, method, body, kwargs, resp, content) ==
    Exchange([h EXCEPT ![self].meta.base_url =
                 RequestUrl(h[self].meta.base_url, kwargs)],
             RequestUrl(h[self].meta.base_url, kwargs), method, body,
             h[self].meta.format, resp, content)

\* Resource._request(method, body=body, **kwargs)
Resource_request(h, self, method, body, kwargs, resp, content) ==
    Exchange(h, RequestUrl(h[self].meta.base_url, kwargs), method, body,
             h[self].meta.format, resp, content)

\* get decoding the body of every 2xx answer
GetAlwaysDecodes(r, format) ==
    IF r.out.k = "raise" THEN r
    ELSE IF Is2xx(r.out.resp.status)
    THEN [r EXCEPT !.out = loads(format, r.out.content)]
    ELSE [r EXCEPT !.out = Return(NoneV)]

\* get, after _request has returned or raised r
GetResult(r, format) ==
    IF r.out.k = "raise" THEN r
    ELSE IF Is2xx(r.out.resp.status)
    THEN IF r.out.resp.status = 200
         THEN [r EXCEPT !.out = loads(format, r.out.content)]
         ELSE [r EXCEPT !.out = Return(StrVal(r.out.content))]
    ELSE [r EXCEPT !.out = Return(NoneV)]

\* Resource.get(**kwargs)
Resource_get(h, self, kwargs, resp, content) ==
    GetResult(Resource_request(h, self, "GET", NoneV, kwargs, resp, content),
              h[self].meta.format)

\* post, after the get on the node for the location has ended as g
PostGot(r, g) == [heap |-> g.heap, sent |-> r.sent \o g.sent, out |-> g.out]

\* post, after self(url_override=resp["location"]) has ended as c
PostFollow(r, c, kwargs, resp2, content2) ==
    IF c.out.k = "raise" THEN [heap |-> c.heap, sent |-> r.sent, out |-> c.out]
    ELSE PostGot(r, Resource_get(c.heap, c.out.v.v, kwargs, resp2, content2))

\* post, after _request has returned or raised r
PostResult(r, self, kwargs, resp2, content2) ==
    IF r.out.k = "raise" THEN r
    ELSE IF Is2xx(r.out.resp.status)
    THEN IF r.out.resp.status = 201
         THEN PostFollow(
                r, Resource_call(r.heap, self,
                                 [url_override |-> r.out.resp.location]),
                kwargs, resp2, content2)
         ELSE [r EXCEPT !.out = Return(StrVal(r.out.content))]
    ELSE [r EXCEPT !.out = Return(NoneV)]

\* Resource.post(data, **kwargs); resp2 and content2 answer the request that
\* follows a 201
Resource_post(h, self, data, kwargs, resp, content, resp2, content2) ==
    PostResult(
        Resource_request(h, self, "POST", StrVal(dumps(h[self].meta.format, data)),
                         kwargs, resp, content),
        self, kwargs, resp2, content2)

\* put and delete, after _request has returned or raised r
Succeeded(r) ==
    IF r.out.k = "raise" THEN r
    ELSE IF Is2xx(r.out.resp.status)
    THEN IF r.out.resp.status = 204
         THEN [r EXCEPT !.out = Return(BoolVal(TRUE))]
         ELSE [r EXCEPT !.out = Return(BoolVal(TRUE))]
    ELSE [r EXCEPT !.out = Return(BoolVal(FALSE))]

\* Resource.put(data, **kwargs)
Resource_put(h, self, data, kwargs, resp, content) ==
    Succeeded(
        Resource_request(h, self, "PUT", StrVal(dumps(h[self].meta.format, data)),
                         kwargs, resp, content))

\* Resource.delete(**kwargs)
Resource_delete(h, self, kwargs, resp, content) ==
    Succeeded(Resource_request(h, self, "DELETE", NoneV, kwargs, resp, content))

\* node.<verb>(...) on a Resource: the method of that name
Resource_verb(h, self, verb, data, kwargs, resp, content, resp2, content2) ==
    CASE verb = "get" -> Resource_get(h, self, kwargs, resp, content)
      [] verb = "post" ->
            Resource_post(h, self, data, kwargs, resp, content, resp2, content2)
      [] verb = "put" -> Resource_put(h, self, data, kwargs, resp, content)
      [] verb = "delete" -> Resource_delete(h, self, kwargs, resp, content)

\* api.<verb>: the class defines no such method and the name goes to
\* __getattr__; a ends it.  The Resource it returns is then called with the
\* arguments args.
ApiCalled(a, args) == Resource_call(a.heap, a.out.v.v, args)

\* api.<verb>(...) on an API (data binds to __call__'s first parameter, id)
API_verb(h, self, verb, data, kwargs) ==
    ApiCalled(getattr(h, self, <<verb>>),
              IF verb \in {"post", "put"} THEN Merge(kwargs, [id |-> data])
              ELSE kwargs)

(***************************************************************************)
(* Inputs.                                                                 *)
(***************************************************************************)
Url(path) == <<"http", ":", "/", "/", "h">> \o path

BaseUrls == {Url(<<"/", "v">>), Url(<<"/", "v", "/">>)}

Credentials == [t |-> "dict", v |-> "user"]

Items == {<<"a">>, <<"_", "a">>}

Ids == {IntVal(42)}

Formats == {"yaml"}

Overrides == {Url(<<"/", "o">>)}

Restrict(f, D) == [x \in D |-> f[x]]

\* the argument lists of a call: each parameter given or omitted
CallArgs ==
    {Restrict([id |-> i, format |-> f, url_overide |-> u], D) :
        i \in Ids, f \in Formats, u \in Overrides, D \in SUBSET CallParams}

\* the calls that give at most one argument
CallArgs1 == {kw \in CallArgs : Cardinality(DOMAIN kw) <= 1}

Verbs == {"get", "post", "put", "delete"}

\* every boundary of the status ranges the code tests
Statuses == {199, 200, 201, 204, 299, 300, 399, 400, 404, 499, 500, 599, 600}

\* one status of each class
Statuses1 == {200, 302, 404}

Locations == {Url(<<"/", "i", "/", "4", "2">>)}

Bodies == {<<"4", "2">>, <<"o", "k">>}

Bodies1 == {<<"4", "2">>}

Data == {IntVal(7)}

DataOf(verb) == IF verb \in {"post", "put"} THEN Data ELSE {NoneV}

Queries == {<<>>, [q |-> StrVal(<<"x", " ", "y">>)]}

(***************************************************************************)
(* State.  heap: the nodes; sent: the requests the last operation gave the *)
(* transport; last: the last operation and its outcome.  born and lineage  *)
(* are history: each node's configuration when it was constructed, and the *)
(* URL and the segments it was navigated from.                             *)
(***************************************************************************)
NoOp == [op |-> "init"]

\* the API objects constructed at the URLs urls
Roots(urls) == {API_init(u, [authentication |-> Credentials]) : u \in urls}

\* the state after one of the nodes nodes is constructed
InitAt(nodes) ==
    /\ \E node \in nodes : heap = <<node>>
    /\ born = heap
    /\ lineage = <<[origin |-> heap[1].meta.base_url, segs |-> <<>>]>>
    /\ last = NoOp
    /\ sent = <<>>

Init == InitAt(Roots({Url(<<"/", "v">>)}))

\* the history of the nodes an operation appended to the heap
Born(h2) == born \o SubSeq(h2, Len(born) + 1, Len(h2))

LineageOfGetattr(lin, n, item) ==
    Append(lin, [lin[n] EXCEPT !.segs = Append(@, StrVal(item))])

LineageOfCall(lin, n, kw) ==
    IF "url_overide" \in DOMAIN kw
    THEN Append(lin, [origin |-> kw.url_overide, segs |-> <<>>])
    ELSE IF "id" \in DOMAIN kw
    THEN Append(lin, [lin[n] EXCEPT !.segs = Append(@, kw.id)])
    ELSE Append(lin, lin[n])

(***************************************************************************)
(* Operations.  Each ...Step is the effect of the operation that ended as  *)
(* r: r.heap is the heap it leaves, r.out what it returned or raised.      *)
(***************************************************************************)
GetAttrStep(n, item, r) ==
    /\ Len(r.heap) <= MaxNodes
    /\ heap' = r.heap
    /\ born' = Born(r.heap)
    /\ lineage' = IF Len(r.heap) > Len(heap)
                  THEN LineageOfGetattr(lineage, n, item) ELSE lineage
    /\ last' = [op |-> "getattr", self |-> n, cls |-> heap[n].cls,
                item |-> item, out |-> r.out, pre |-> Len(heap)]
    /\ sent' = <<>>

\* node.<item>
GetAttrOf(items) ==
    \E n \in 1..Len(heap), item \in items :
        GetAttrStep(n, item, getattr(heap, n, item))

CallStep(n, kw, r) ==
    /\ Len(r.heap) <= MaxNodes
    /\ heap' = r.heap
    /\ born' = Born(r.heap)
    /\ lineage' = IF Len(r.heap) > Len(heap)
                  THEN LineageOfCall(lineage, n, kw) ELSE lineage
    /\ last' = [op |-> "call", self |-> n, cls |-> heap[n].cls,
                kw |-> kw, out |-> r.out, pre |-> Len(heap)]
    /\ sent' = <<>>

\* node(id, format, url_overide); an API object is not callable
CallOf(args) ==
    \E n \in 1..Len(heap), kw \in args :
        CallStep(n, kw, IF heap[n].cls = "Resource" THEN Resource_call(heap, n, kw)
                        ELSE [heap |-> heap, out |-> Raise("TypeError")])

CopyStep(n, r) ==
    /\ heap[n].cls = "Resource"
    /\ Len(r.heap) <= MaxNodes
    /\ heap' = r.heap
    /\ born' = Born(r.heap)
    /\ lineage' = Append(lineage, lineage[n])
    /\ last' = [op |-> "copy", self |-> n, cls |-> heap[n].cls,
                out |-> r.out, pre |-> Len(heap)]
    /\ sent' = <<>>

\* copy.copy(node) of a Resource
Copy == \E n \in 1..Len(heap) : CopyStep(n, Resource_copy(heap, n))

\* the answers the transport can give to the request that follows a 201
FollowUps(verb, resp, answers) ==
    IF verb = "post" /\ resp.status = 201 THEN answers ELSE {resp}

\* The node post makes for the location is local to the method and is gone
\* when it returns.
VerbStep(n, verb, data, kwargs, resp, content, r) ==
    /\ heap' = SubSeq(r.heap, 1, Len(heap))
    /\ UNCHANGED <<born, lineage>>
    /\ last' = [op |-> "verb", self |-> n, cls |-> heap[n].cls,
                verb |-> verb, data |-> data, kwargs |-> kwargs,
                resp |-> resp, content |-> content,
                out |-> r.out, pre |-> Len(heap)]
    /\ sent' = r.sent

\* node.get(**kwargs), node.post(data, **kwargs), node.put(data, **kwargs),
\* node.delete(**kwargs) on a Resource
VerbOf(statuses, bodies) ==
    \E n \in 1..Len(heap), verb \in Verbs, kwargs \in Queries,
       resp \in [status : statuses, location : Locations], content \in bodies :
      \E data \in DataOf(verb),
         resp2 \in FollowUps(verb, resp, [status : statuses, location : Locations]),
         content2 \in bodies :
        /\ heap[n].cls = "Resource"
        /\ VerbStep(n, verb, data, kwargs, resp, content,
                    Resource_verb(heap, n, verb, data, kwargs,
                                  resp, content, resp2, content2))

ApiVerbStep(n, verb, data, kwargs, r) ==
    /\ Len(r.heap) <= MaxNodes
    /\ heap' = r.heap
    /\ born' = Born(r.heap)
    /\ lineage' = IF Len(r.heap) > Len(heap) + 1
                  THEN LineageOfCall(LineageOfGetattr(lineage, n, <<verb>>),
                                     Len(heap) + 1, [id |-> data])
                  ELSE LineageOfGetattr(lineage, n, <<verb>>)
    /\ last' = [op |-> "verb", self |-> n, cls |-> heap[n].cls,
                verb |-> verb, data |-> data, kwargs |-> kwargs,
                out |-> r.out, pre |-> Len(heap)]
    /\ sent' = <<>>

\* api.get(**kwargs), api.post(data, **kwargs), ... on an API
ApiVerb ==
    \E n \in 1..Len(heap), verb \in Verbs, kwargs \in Queries :
      \E data \in DataOf(verb) :
        /\ heap[n].cls = "API"
        /\ ApiVerbStep(n, verb, data, kwargs,
                       API_verb(heap, n, verb, data, kwargs))

(***************************************************************************)
(* The program: navigation and requests together.                          *)
(***************************************************************************)
GetAttr == GetAttrOf(Items)

Call == CallOf(CallArgs1)

Verb == VerbOf(Statuses1, Bodies1)

Next == GetAttr \/ Call \/ Copy \/ Verb \/ ApiVerb

Spec == Init /\ [][Next]_vars

(***************************************************************************)
(* Navigation alone, with every combination of call arguments.             *)
(***************************************************************************)
InitNav == InitAt(Roots(BaseUrls))

NavGetAttr == GetAttrOf(Items)

NavCall == CallOf(CallArgs)

NextNav == NavGetAttr \/ NavCall \/ Copy \/ ApiVerb

SpecNav == InitNav /\ [][NextNav]_vars

(***************************************************************************)
(* Path composition: base URLs with and without a trailing slash, a query, *)
(* a fragment, an empty path; segments that are names, numbers, empty, or   *)
(* hold "/", "?", "#".                                                     *)
(***************************************************************************)
JoinBases ==
    {Url(<<>>), Url(<<"/">>), Url(<<"/", "v">>), Url(<<"/", "v", "/">>),
     Url(<<"/", "v", "?", "k">>), Url(<<"/", "v", "/", "#", "f">>)}

JoinIds ==
    {IntVal(42), StrVal(<<"b">>), StrVal(<<>>), StrVal(<<"/", "c">>),
     StrVal(<<"c", "/">>), StrVal(<<"a", "?", "b">>), StrVal(<<"a", "#", "b">>)}

\* navigation starts at an API or at a Resource constructed at the base URL
InitJoin ==
    InitAt(Roots(JoinBases)
           \cup {Resource_init([base_url |-> u, authentication |-> Credentials]) :
                    u \in JoinBases})

JoinGetAttr == GetAttrOf({<<"a">>})

JoinCall == CallOf({[id |-> i] : i \in JoinIds})

NextJoin == JoinGetAttr \/ JoinCall

SpecJoin == InitJoin /\ [][NextJoin]_vars

(***************************************************************************)
(* Status dispatch: the verbs of a json node and of a yaml node, answered  *)
(* with every boundary status.                                             *)
(***************************************************************************)
InitVerb ==
    /\ \E u \in BaseUrls :
          heap = Resource_call(
                    getattr(<<API_init(u, [authentication |-> Credentials])>>,
                            1, <<"a">>).heap,
                    2, [format |-> "yaml"]).heap
    /\ born = heap
    /\ lineage = LineageOfCall(
                    LineageOfGetattr(
                        <<[origin |-> heap[1].meta.base_url, segs |-> <<>>]>>,
                        1, <<"a">>),
                    2, [format |-> "yaml"])
    /\ last = NoOp
    /\ sent = <<>>

Dispatch == VerbOf(Statuses, Bodies)

NextVerb == Dispatch

SpecVerb == InitVerb /\ [][NextVerb]_vars

(***************************************************************************)
(* Properties.                                                             *)
(***************************************************************************)
\* the last operation was a verb method of a Resource, answered by the transport
Answered == last.op = "verb" /\ last.cls = "Resource"

AnsweredVerb(verb) == Answered /\ last.verb = verb

HttpError(exc) ==
    /\ last.out.k = "raise"
    /\ last.out.exc = exc
    /\ last.out.status = last.resp.status
    /\ last.out.response = last.resp
    /\ last.out.content = last.content

\* C1: a verb answered with a status in 400..499 fails with a client error
\* carrying the status, the response and the body; one answered with a status
\* in 500..599 fails with a server error carrying the same; neither returns.
C1_StatusErrors ==
    Answered =>
        /\ (400 <= last.resp.status /\ last.resp.status <= 499)
              => HttpError("HttpClientError")
        /\ (500 <= last.resp.status /\ last.resp.status <= 599)
              => HttpError("HttpServerError")

C1_Witness ==
    /\ AnsweredVerb("delete")
    /\ last.resp.status = 400
    /\ HttpError("HttpClientError")

\* C2: a post answered with 201 sends a GET to the location the server
\* returned and completes with that GET's result.
C2_PostFollowsLocation ==
    (AnsweredVerb("post") /\ last.resp.status = 201) =>
        /\ Len(sent) = 2
        /\ sent[2].method = "GET"
        /\ sent[2].url = RequestUrl(last.resp.location, last.kwargs)
        /\ last.out.k = "return"

\* C3: a get answered with a status outside 400..599 ends as the serializer's
\* decoding of the body ends for 200 (the decoded value, or the codec's error),
\* returns the raw body for any other 2xx, and returns nothing otherwise.
C3_GetResult ==
    (AnsweredVerb("get")
        /\ ~(400 <= last.resp.status /\ last.resp.status <= 599)) =>
        IF last.resp.status = 200
        THEN last.out = loads(heap[last.self].meta.format, last.content)
        ELSE IF 200 <= last.resp.status /\ last.resp.status <= 299
        THEN last.out = Return(StrVal(last.content))
        ELSE last.out = Return(NoneV)

C3_Witness ==
    /\ AnsweredVerb("get")
    /\ last.resp.status = 204
    /\ last.out = Return(StrVal(last.content))
    /\ loads(heap[last.self].meta.format, last.content).k = "return"

\* C4: a put or delete answered with a status outside 400..599 returns true
\* exactly when the status is in 200..299, and false otherwise.
C4_PutDeleteResult ==
    ((AnsweredVerb("put") \/ AnsweredVerb("delete"))
        /\ ~(400 <= last.resp.status /\ last.resp.status <= 599)) =>
        last.out =
            Return(BoolVal(200 <= last.resp.status /\ last.resp.status <= 299))

C4_Witness ==
    /\ AnsweredVerb("put")
    /\ last.resp.status = 299
    /\ last.out = Return(BoolVal(TRUE))

\* C5 as stated: a put answered with 404 returns false, as a put answered
\* with 204 returns true.
C5_Put404ReturnsFalse ==
    /\ (AnsweredVerb("put") /\ last.resp.status = 404)
          => last.out = Return(BoolVal(FALSE))
    /\ (AnsweredVerb("put") /\ last.resp.status = 204)
          => last.out = Return(BoolVal(TRUE))

\* C5 amended: a put answered with 404 fails with a client error carrying
\* status 404; a put answered with 204 returns true.
C5_Put404Raises ==
    /\ (AnsweredVerb("put") /\ last.resp.status = 404)
          => HttpError("HttpClientError")
    /\ (AnsweredVerb("put") /\ last.resp.status = 204)
          => last.out = Return(BoolVal(TRUE))

C5_Witness ==
    /\ AnsweredVerb("put")
    /\ last.resp.status = 404
    /\ last.out.k = "raise"

HasDoubleSlash(s) == \E i \in 1..(Len(s) - 1) : s[i] = "/" /\ s[i + 1] = "/"

\* node n's base_url is its origin joined with all its segments at once, its
\* path has no doubled separator, and the origin's other parts are kept
Composed(n) ==
    LET u == urlsplit(lineage[n].origin)
        b == urlsplit(heap[n].meta.base_url)
    IN  /\ heap[n].meta.base_url = url_join(lineage[n].origin, lineage[n].segs)
        /\ ~HasDoubleSlash(b.path)
        /\ b.scheme = u.scheme
        /\ b.netloc = u.netloc
        /\ b.query = u.query
        /\ b.fragment = u.fragment

\* a segment that holds no "?", no "#" and no doubled "/"
PlainSegment(x) ==
    /\ \A i \in 1..Len(str(x)) : str(x)[i] \notin {"?", "#"}
    /\ ~HasDoubleSlash(str(x))

PlainLineage(n) ==
    /\ ~HasDoubleSlash(urlsplit(lineage[n].origin).path)
    /\ \A i \in 1..Len(lineage[n].segs) : PlainSegment(lineage[n].segs[i])

\* C6 as stated: for every base URL and every sequence of segments, a node
\* reached one segment at a time has the base_url that url_join gives for all
\* the segments at once, with no doubled separator in its path and the
\* scheme, host, query and fragment of the base URL.
C6_ComposesForAllSegments ==
    \A n \in 1..Len(heap) : lineage[n].segs # <<>> => Composed(n)

\* C6 amended: the same, for a base URL whose path has no doubled "/" and
\* segments that hold no "?", no "#" and no doubled "/".
C6_ComposesForPlainSegments ==
    \A n \in 1..Len(heap) :
        (lineage[n].segs # <<>> /\ PlainLineage(n)) => Composed(n)

C6_Witness ==
    \E n \in 1..Len(heap) :
        /\ Len(lineage[n].segs) = 2
        /\ PlainLineage(n)
        /\ lineage[n].origin = Url(<<"/", "v", "/">>)
        /\ heap[n].meta.base_url = Url(<<"/", "v", "/", "a", "/", "4", "2">>)

\* the configuration the documentation gives the node a call returns
CalledMeta(self, kw) ==
    [base_url |->
        IF "url_overide" \in DOMAIN kw THEN kw.url_overide
        ELSE IF "id" \in DOMAIN kw
        THEN url_join(heap[self].meta.base_url, <<kw.id>>)
        ELSE heap[self].meta.base_url,
     format |->
        IF "format" \in DOMAIN kw THEN kw.format ELSE heap[self].meta.format,
     authentication |-> heap[self].meta.authentication]

\* C7: node(id, format, url_override) returns the node itself when all three
\* are omitted; otherwise a new node whose base_url is url_override when it
\* is given, else the join of the node's base_url with str(id) when id is
\* given, else the node's base_url; whose format is the format given, else
\* the node's; and whose authentication is the node's.
C7_CallResult ==
    (last.op = "call" /\ last.cls = "Resource") =>
        IF DOMAIN last.kw = {}
        THEN /\ last.out = Return(NodeRef(last.self))
             /\ Len(heap) = last.pre
        ELSE /\ last.out = Return(NodeRef(last.pre + 1))
             /\ Len(heap) = last.pre + 1
             /\ heap[last.pre + 1].cls = "Resource"
             /\ heap[last.pre + 1].meta = CalledMeta(last.self, last.kw)

C7_Witness ==
    /\ last.op = "call"
    /\ last.cls = "Resource"
    /\ DOMAIN last.kw = {"id", "format", "url_overide"}
    /\ heap[Len(heap)].meta.base_url = Url(<<"/", "o">>)
    /\ heap[Len(heap)].meta.format = "yaml"

\* attribute access on any node gives a new Resource at the joined URL with
\* the node's format and authentication
ChildOf(self, item) ==
    /\ last.out = Return(NodeRef(last.pre + 1))
    /\ heap[last.pre + 1].cls = "Resource"
    /\ heap[last.pre + 1].meta =
          [base_url |-> url_join(heap[self].meta.base_url, <<StrVal(item)>>),
           format |-> heap[self].meta.format,
           authentication |-> heap[self].meta.authentication]

RootAttr ==
    (last.op = "getattr" /\ last.cls = "API" /\ ~StartsWith(last.item, <<"_">>))
        => ChildOf(last.self, last.item)

\* C8 as stated: a Root Node behaves as a Resource Node of the same
\* configuration for attribute access, for the call, and for each verb, which
\* sends the request to the root's own base_url.
C8_RootIsResource ==
    /\ RootAttr
    /\ (last.op = "call" /\ last.cls = "API") =>
          IF DOMAIN last.kw = {}
          THEN last.out = Return(NodeRef(last.self))
          ELSE /\ last.out = Return(NodeRef(last.pre + 1))
               /\ heap[last.pre + 1].meta = CalledMeta(last.self, last.kw)
    /\ (last.op = "verb" /\ last.cls = "API") =>
          /\ Len(sent) = 1
          /\ sent[1].url = RequestUrl(heap[last.self].meta.base_url, last.kwargs)

\* C8 amended: a Root Node behaves as a Resource Node of the same
\* configuration for attribute access only.  It is not callable, and it has
\* no verb methods: a verb's name on it is an attribute access that makes the
\* child node of that name and sends no request.
C8_RootIsResourceForAttributes ==
    /\ RootAttr
    /\ (last.op = "call" /\ last.cls = "API") =>
          /\ last.out = Raise("TypeError")
          /\ Len(heap) = last.pre
    /\ (last.op = "verb" /\ last.cls = "API") =>
          /\ sent = <<>>
          /\ heap[last.pre + 1].cls = "Resource"
          /\ heap[last.pre + 1].meta =
                [base_url |-> url_join(heap[last.self].meta.base_url,
                                       <<StrVal(<<last.verb>>)>>),
                 format |-> heap[last.self].meta.format,
                 authentication |-> heap[last.self].meta.authentication]

C8_Witness ==
    /\ last.op = "getattr"
    /\ last.cls = "API"
    /\ heap[1].meta.base_url = Url(<<"/", "v", "/">>)
    /\ heap[Len(heap)].meta.base_url = Url(<<"/", "v", "/", "a">>)
    /\ heap[Len(heap)].meta.authentication = Credentials

\* C9: every node has the base_url, format and authentication it was
\* constructed with, whatever was done since.
C9_NodesNeverChange ==
    /\ Len(heap) = Len(born)
    /\ \A n \in 1..Len(heap) : heap[n] = born[n]

C9_Witness ==
    /\ last.op = "verb"
    /\ last.cls = "Resource"
    /\ DOMAIN last.kwargs # {}
    /\ Len(heap) = 3
    /\ \E n \in 1..Len(heap) : heap[n].meta.base_url = Url(<<"/", "o">>)
    /\ sent[1].url # heap[last.self].meta.base_url

====
